---- MODULE Spec2Model ----
(***************************************************************************)
(* The super averager sa09.py (src/popc_reduced_dataset/sa09.py): listing  *)
(* and loading detector frames into the stack data2d, the queue of         *)
(* averagers (sum, average, median, decosmic2d) run on it, and the output  *)
(* of their results.                                                       *)
(*                                                                         *)
(* Pixel values.  A float32 pixel is the record [nan, n, d]: NaN, or the   *)
(* exact rational n/d in lowest terms with d > 0.  Frame files hold        *)
(* integer counts, so every stack value has d = 1; quotients appear only   *)
(* in the results of the mean, the variance and the median.  The model is  *)
(* exact: the rounding of float32 sums and quotients is not modelled.      *)
(* An image is the row-major sequence of its pixels; None is <<>>.         *)
(***************************************************************************)
EXTENDS Integers, Sequences, FiniteSets, TLC

\* ------------------------------------------------------------------ bounds
\* Largest number of frame files in the input location.
MaxFiles == 3

\* Largest number of groups asked of the grouped median.
MaxGroups == 3

\* Number of frames of the stack of values 1..N reduced with xhighest = 1.0.
FramesOneToN == 5

\* Number of frames of the long stack reduced with xhighest = 0.01.
FramesLong == 100

\* ------------------------------------------------------------ pixel values
NaN == [nan |-> TRUE, n |-> 0, d |-> 1]

Num(k) == [nan |-> FALSE, n |-> k, d |-> 1]

Abs(k) == IF k < 0 THEN -k ELSE k

RECURSIVE GCD(_, _)
GCD(a, b) == IF b = 0 THEN a ELSE GCD(b, a % b)

\* n/d in lowest terms (d > 0).
Rat(n, d) ==
    LET g == GCD(Abs(n), d)
    IN  [nan |-> FALSE, n |-> n \div g, d |-> d \div g]

\* k * v for an integer k; NaN stays NaN.
Times(k, v) == IF v.nan THEN NaN ELSE Rat(k * v.n, v.d)

None == << >>

\* The cast of an integer count to dtype2d = 'float32': exact up to 2^24,
\* rounded to the nearest even multiple of the spacing above it (one binade).
Float32(k) ==
    IF Abs(k) <= 16777216 THEN k
    ELSE LET q == Abs(k) \div 2
             r == Abs(k) % 2
             up == IF r = 1 /\ q % 2 = 1 THEN 1 ELSE 0
             a == 2 * (q + up)
         IN  IF k < 0 THEN -a ELSE a

\* ------------------------------------------------- reductions of one pixel
\* A column is the sequence of one pixel's values along the frame axis.
IsNum(v) == ~v.nan

Valid(col) == SelectSeq(col, IsNum)

HasNaN(col) == \E i \in 1..Len(col) : col[i].nan

\* The sum of col[lo..hi], by halves.
RECURSIVE SumRange(_, _, _)
SumRange(col, lo, hi) ==
    IF lo > hi THEN 0
    ELSE IF lo = hi THEN col[lo].n
    ELSE LET mid == (lo + hi) \div 2
         IN  SumRange(col, lo, mid) + SumRange(col, mid + 1, hi)

SumN(col) == SumRange(col, 1, Len(col))

SumSq(col) == SumRange([i \in 1..Len(col) |-> Num(col[i].n * col[i].n)], 1, Len(col))

\* The integer values of a column in ascending order.
ValueLess(a, b) == a.n < b.n

SortCol(col) == SortSeq(col, ValueLess)

\* bn.nansum: NaNs ignored, 0 when nothing is left.
bn_nansum(col) == Num(SumN(Valid(col)))

\* bn.nanmean: mean of the non-NaN values, NaN when there is none.
bn_nanmean_divlen(col) ==
    IF Valid(col) = << >> THEN NaN ELSE Rat(SumN(Valid(col)), Len(col))

bn_nanmean(col) ==
    IF Valid(col) = << >> THEN NaN ELSE Rat(SumN(Valid(col)), Len(Valid(col)))

\* The sample variance (ddof = 1) of the non-NaN values.
bn_nanvar_ddof1(col) ==
    LET v == Valid(col)
        c == Len(v)
    IN  IF c <= 1 THEN NaN ELSE Rat(c * SumSq(v) - SumN(v) * SumN(v), c * (c - 1))

\* bn.nanvar (ddof = 0): population variance of the non-NaN values.
bn_nanvar(col) ==
    LET v == Valid(col)
        c == Len(v)
    IN  IF c = 0 THEN NaN ELSE Rat(c * SumSq(v) - SumN(v) * SumN(v), c * c)

\* bn.nanmedian: median of the non-NaN values, NaN when there is none.
bn_nanmedian(col) ==
    LET s == SortCol(Valid(col))
        c == Len(s)
    IN  IF c = 0 THEN NaN
        ELSE IF c % 2 = 1 THEN s[(c + 1) \div 2]
        ELSE Rat(s[c \div 2].n + s[c \div 2 + 1].n, 2)

\* np.amin: NaN as soon as one value is NaN.
np_amin(col) ==
    IF HasNaN(col) THEN NaN ELSE SortCol(col)[1]

\* np.where(x >= 0, x, np.nan): the comparison is False for NaN.
NonNegOrNaN_gt0(v) == IF ~v.nan /\ v.n > 0 THEN v ELSE NaN

NonNegOrNaN(v) == IF ~v.nan /\ v.n >= 0 THEN v ELSE NaN

\* ---------------------------------------------------------------- the stack
\* data2d[i][p]: pixel p (row-major) of frame i.
Column(data2d, p) == [i \in 1..Len(data2d) |-> data2d[i][p]]

NPix(data2d) == Len(data2d[1])

\* np.where(data2d >= 0, data2d, np.nan) on a whole stack.
MaskNegative(data2d) ==
    [i \in 1..Len(data2d) |-> [p \in 1..Len(data2d[i]) |-> NonNegOrNaN(data2d[i][p])]]

\* ------------------------------------------------------ averager parameters
\* A parameter value is [none, m, e]: Python None, or the number m * 10^e.
\* ngroups is an integer (e = 0); xhighest is a decimal fraction.
NoParam == [none |-> TRUE, m |-> 0, e |-> 0]

IntParam(k) == [none |-> FALSE, m |-> k, e |-> 0]

Dec(m, e) == [none |-> FALSE, m |-> m, e |-> e]

RECURSIVE Pow10(_)
Pow10(k) == IF k <= 0 THEN 1 ELSE 10 * Pow10(k - 1)

\* xhighest <= 1 (a mantissa of at most nine digits is below 10^10).
LeOne(x) ==
    IF x.e >= 0 THEN x.m * Pow10(x.e) <= 1
    ELSE IF -x.e > 9 THEN TRUE
    ELSE x.m <= Pow10(-x.e)

\* 1 - xhighest evaluates to 1.0 in double precision when 0 < xhighest <= 2^-54
\* (about 5.55e-17): here, a one-digit mantissa m <= 5 with exponent <= -17.
OneMinusIsOne(x) == x.m > 0 /\ x.m <= 5 /\ x.e <= -17

\* line 259: nlowest = int((1-xhighest)*nfiles), for 0 < xhighest <= 1.
nlowest_keep_fraction(x, nfiles) ==
    IF x.e >= 0 THEN nfiles
    ELSE (x.m * nfiles) \div Pow10(-x.e)

\* round((1-xhighest)*nfiles), ties to the even integer.
nlowest_round(x, nfiles) ==
    IF OneMinusIsOne(x) THEN nfiles
    ELSE IF x.e >= 0 THEN 0
    ELSE LET a == (Pow10(-x.e) - x.m) * nfiles
             q == a \div Pow10(-x.e)
             r == a % Pow10(-x.e)
         IN  IF 2 * r > Pow10(-x.e) \/ (2 * r = Pow10(-x.e) /\ q % 2 = 1)
             THEN q + 1 ELSE q

nlowest_of(x, nfiles) ==
    IF OneMinusIsOne(x) THEN nfiles
    ELSE IF x.e >= 0 THEN 0
    ELSE ((Pow10(-x.e) - x.m) * nfiles) \div Pow10(-x.e)

\* --------------------------------------------------------- display labels
\* modestr is [kind, m, e]: 'SUM', 'AVG', 'MED_OF_<m>', 'DC2D_<m>E<e>'.
NoModestr == [kind |-> "None", m |-> 0, e |-> 0]

\* '%.E' % x: one mantissa digit, rounded half to even, and the decimal
\* exponent.  Mantissas of one or two digits are formatted.
FormatE(x) ==
    IF x.m = 0 THEN [m |-> 0, e |-> 0]
    ELSE IF Abs(x.m) < 10 THEN [m |-> x.m, e |-> x.e]
    ELSE LET a == Abs(x.m) \div 10
             b == Abs(x.m) % 10
             r == IF b > 5 \/ (b = 5 /\ a % 2 = 1) THEN a + 1 ELSE a
             sg == IF x.m < 0 THEN -1 ELSE 1
         IN  IF r = 10 THEN [m |-> sg, e |-> x.e + 2]
             ELSE [m |-> sg * r, e |-> x.e + 1]

\* ------------------------------------------------------------- class Avger
\* Avger.__init__
NewAvger(name, param, use_uncertainty) ==
    [name |-> name, param |-> param, use_uncertainty |-> use_uncertainty,
     data_avged |-> None, var_avged |-> None, success |-> -1, modestr |-> NoModestr]

\* The reductions along axis 0: every pixel's column reduced on its own.
nansum_axis0(data2d) == [p \in 1..NPix(data2d) |-> bn_nansum(Column(data2d, p))]

nanmean_axis0(data2d) == [p \in 1..NPix(data2d) |-> bn_nanmean(Column(data2d, p))]

nanvar_axis0(data2d) == [p \in 1..NPix(data2d) |-> bn_nanvar(Column(data2d, p))]

nanmedian_axis0(data2d) == [p \in 1..NPix(data2d) |-> bn_nanmedian(Column(data2d, p))]

amin_axis0(data2d) == [p \in 1..NPix(data2d) |-> np_amin(Column(data2d, p))]

\* Avger.run, name == 'sum'
RunSum(a, data2d) ==
    LET img == nansum_axis0(data2d)
    IN  [a EXCEPT !.data_avged = img,
                  !.var_avged = IF a.use_uncertainty THEN img ELSE @,
                  !.success = 1,
                  !.modestr = [kind |-> "SUM", m |-> 0, e |-> 0]]

\* Avger.run, name == 'average'
RunAverage(a, data2d) ==
    [a EXCEPT !.data_avged = nanmean_axis0(data2d),
              !.var_avged = IF a.use_uncertainty THEN nanvar_axis0(data2d) ELSE @,
              !.success = 1,
              !.modestr = [kind |-> "AVG", m |-> 0, e |-> 0]]

\* The group sums with the groups taken from the end of the column.
GroupSums_fromend(col, ngroups) ==
    LET n_per_group == Len(col) \div ngroups
        remainder == Len(col) % ngroups
    IN  [g \in 1..ngroups |->
            bn_nansum([k \in 1..n_per_group |->
                          NonNegOrNaN(col[remainder + (g - 1) * n_per_group + k])])]

\* The group sums of the values as they are, nothing masked before bn.nansum.
GroupSums_raw(col, ngroups) ==
    LET n_per_group == Len(col) \div ngroups
    IN  [g \in 1..ngroups |->
            bn_nansum([k \in 1..n_per_group |-> col[(g - 1) * n_per_group + k]])]

\* The sums of the groups of one pixel: group i (from 0) is the slice
\* [i*n_per_group : i*n_per_group+n_per_group] of the column, negative and NaN
\* values masked before bn.nansum.
GroupSums(col, ngroups) ==
    LET n_per_group == Len(col) \div ngroups
    IN  [g \in 1..ngroups |->
            bn_nansum([k \in 1..n_per_group |->
                          NonNegOrNaN(col[(g - 1) * n_per_group + k])])]

\* line 235: the median of the group sums, negative sums masked.
MedianOfGroups(col, ngroups) ==
    LET sums == GroupSums(col, ngroups)
    IN  bn_nanmedian([g \in 1..ngroups |-> NonNegOrNaN(sums[g])])

\* line 217: the test that lets the grouped median run.
EnoughGroups_ge1(ngroups) == ngroups >= 1

EnoughGroups(ngroups) == ngroups > 1

\* Avger.run, name == 'median'
RunMedian(a, data2d) ==
    LET nfiles == Len(data2d)
        given == ~a.param.none
        ngroups == IF given THEN a.param.m ELSE nfiles
        img == IF given
               THEN IF EnoughGroups(ngroups)
                    THEN [p \in 1..NPix(data2d) |->
                             MedianOfGroups(Column(data2d, p), ngroups)]
                    ELSE a.data_avged
               ELSE nanmedian_axis0(data2d)
    IN  [a EXCEPT !.data_avged = img,
                  !.success = 1,
                  !.modestr = [kind |-> "MED_OF", m |-> ngroups, e |-> 0]]

\* bn.partition(col, k)[:k] followed by nanmean / nanvar, for one pixel.  The
\* first k entries are k smallest values of the column.  bn.partition is not
\* protected against NaN: on a column holding NaN any k of its entries may
\* come first.
LowestPart(col, k) == SubSeq(SortCol(col), 1, k)

PickPart(col, S) ==
    LET RECURSIVE Pick(_)
        Pick(i) == IF i > Len(col) THEN << >>
                   ELSE (IF i \in S THEN <<col[i]>> ELSE << >>) \o Pick(i + 1)
    IN  Pick(1)

PartitionParts(col, k) ==
    IF HasNaN(col)
    THEN {PickPart(col, S) : S \in {T \in SUBSET (1..Len(col)) : Cardinality(T) = k}}
    ELSE {LowestPart(col, k)}

\* The pairs <<mean, variance>> a pixel can get from the k lowest values.
PartOutcomes(col, k) ==
    {<<bn_nanmean(part), bn_nanvar(part)>> : part \in PartitionParts(col, k)}

\* All images of such pairs, one pair per pixel.
RECURSIVE PartImages(_, _, _)
PartImages(data2d, k, p) ==
    IF p = 0 THEN {<< >>}
    ELSE {Append(img, o) : img \in PartImages(data2d, k, p - 1),
                           o \in PartOutcomes(Column(data2d, p), k)}

\* line 258: the test of the parameter range.
InRange_0_to_1(x) == x.m > 0 /\ LeOne(x)

\* Avger.run, name == 'decosmic2d': the set of results it can leave.
RunDecosmic2d(a, data2d) ==
    LET nfiles == Len(data2d)
        xhighest == a.param
        label == [kind |-> "DC2D", m |-> FormatE(xhighest).m, e |-> FormatE(xhighest).e]
        done(img, var) ==
            [a EXCEPT !.data_avged = img,
                      !.var_avged = IF a.use_uncertainty THEN var ELSE @,
                      !.success = 1,
                      !.modestr = label]
        n0 == nlowest_of(xhighest, nfiles)
        n1 == IF n0 = 0 THEN 1 ELSE n0
        nlowest == IF n1 = nfiles THEN n1 - 1 ELSE n1
    IN  IF xhighest.m = 0
        THEN {done(nanmean_axis0(data2d), nanvar_axis0(data2d))}
        ELSE IF InRange_0_to_1(xhighest)
        THEN IF n1 = 1
             THEN {done(amin_axis0(data2d), amin_axis0(data2d))}
             ELSE {done([p \in 1..NPix(data2d) |-> img[p][1]],
                        [p \in 1..NPix(data2d) |-> img[p][2]]) :
                      img \in PartImages(data2d, nlowest, NPix(data2d))}
        ELSE \* line 279 sets success = 0, line 280 overwrites it with 1
             {[a EXCEPT !.success = 1, !.modestr = label]}

\* Avger.run: the set of averagers it can leave behind
Avger_run(a, data2d) ==
    CASE a.name = "sum" -> {RunSum(a, data2d)}
      [] a.name = "average" -> {RunAverage(a, data2d)}
      [] a.name = "median" -> {RunMedian(a, data2d)}
      [] a.name = "decosmic2d" -> RunDecosmic2d(a, data2d)
      [] OTHER -> {a}

\* ----------------------------------------------------------------- globals
imagetypes == {".tif", ".cbf", ".edf"}

archivetypes == {".zip", ".tar.gz"}

\* The defaults of the command line (lines 101-109).
xhighest_default == Dec(1, -4)

ngroups_default == 3

\* The string './': iterating over a Python string gives its characters.
inpath_default == <<".", "/">>

filetype_default == ".tif"

nan_default == TRUE

uncertainty_default == FALSE

verbose_level_default == 1

\* The averager names from the last to the first.
avgers_reversed == <<"decosmic2d", "median", "average", "sum">>

\* The averager names in the order in which manage_avgers queues them.
avgers_order == <<"sum", "average", "median", "decosmic2d">>

\* ------------------------------------------------------------------- state
\* A file of an input location is [name, ext, shape, data]: name is the
\* sequence of the underscore-separated tokens of its stem (the last one the
\* zero-padded acquisition index, kept as a number), shape is <<rows, columns>>
\* and data the row-major integer counts.  An archive is [name, ext, members],
\* members being the files it packs.  An input location is
\* [files, archives, scratch, out]: the frame files in the order of
\* os.listdir, the archives, the directory sa_temp_<archive> for its first
\* archive as [exists, files], and the result files written next to the
\* input as records [fn, data].
VARIABLES
    args,       \* the parsed command line (Sa.args)
    locs,       \* the input locations of args.inpaths, as the disk holds them
    fs0,        \* the input locations as they were when the program started
    args0,      \* the command line as the operator gave it
    argv,       \* the options superavg parsed it from, None when the caller
                \* of Sa built args itself
    stdin,      \* the lines the operator types from now on, one per input()
    prompts,    \* the number of times query_yes_no has printed its question
    asked,      \* the answers given in extract_archive: records [loc, reuse]
    loc,        \* position of superavg's loop in args.inpaths
    intemp,     \* Sa.inpath is Sa.temppath rather than the location itself
    use_archive,            \* Sa.use_archive
    temppath,               \* Sa.temppath: the location it lies in, 0 for None
    use_existing_temppath,  \* Sa.use_existing_temppath
    filelist,   \* Sa.filelist
    nimages,    \* Sa.nimages
    data2d,     \* Sa.data2d
    avgers,     \* Sa.avgers
    idx,        \* position of the running loop in avgers
    saves,      \* the calls of save_file so far: records [fn, data, report]
    trace,      \* the stages entered so far, and the ends of the output
                \* stage: pairs <<location, stage>>
    pc          \* the stage of superavg's loop body

vars ==
    <<args, locs, fs0, args0, argv, stdin, prompts, asked, loc, intemp, use_archive, temppath, use_existing_temppath,
      filelist, nimages, data2d, avgers, idx, saves, trace, pc>>

\* The files os.listdir(Sa.inpath) gives.
dir == IF intemp THEN locs[temppath].scratch.files ELSE locs[loc].files

\* The files of args.outpath, which superavg sets to the input location.
outfiles == locs[loc].out

\* ------------------------------------------------------- helper functions
\* A Python value that is None or a string: [none, s].
NoStr == [none |-> TRUE, s |-> ""]

StrOf(s) == [none |-> FALSE, s |-> s]

\* The lines an operator types in the model.
Lines == {"", "y", "Y", "ye", "yes", "Yes", "YES", "n", "N", "no", "No", "NO", "x", "maybe"}

\* str.lower() on these lines.
lower(line) ==
    CASE line = "Y" -> "y"
      [] line \in {"Yes", "YES"} -> "yes"
      [] line = "N" -> "n"
      [] line \in {"No", "NO"} -> "no"
      [] OTHER -> line

\* line 139 of query_yes_no: the answers it accepts.
valid == [c \in {"yes", "y", "ye", "no", "n"} |-> c \in {"yes", "y", "ye"}]

\* The loop of query_yes_no (lines 150-158) from the i-th line of inputs on,
\* as [outcome, value, used, prompts]: it returns a value after reading
\* `used` lines, or it has read them all and waits in input() for the next.
RECURSIVE query_loop(_, _, _)
query_loop(default, inputs, i) ==
    IF i > Len(inputs)
    THEN [outcome |-> "waiting", value |-> FALSE, used |-> Len(inputs), prompts |-> i]
    ELSE LET choice == lower(inputs[i])
         IN  IF ~default.none /\ choice = ""
             THEN [outcome |-> "return", value |-> valid[default.s], used |-> i,
                   prompts |-> i]
             ELSE IF choice \in DOMAIN valid
             THEN [outcome |-> "return", value |-> valid[choice], used |-> i,
                   prompts |-> i]
             ELSE query_loop(default, inputs, i + 1)

\* query_yes_no with the answers of the mutated table: 'n' counts as yes.
query_yes_no_n_is_yes(default, inputs) ==
    LET q == query_loop(default, inputs, 1)
    IN  IF ~default.none /\ default.s \notin {"yes", "no"}
        THEN [outcome |-> "ValueError", value |-> FALSE, used |-> 0, prompts |-> 0]
        ELSE IF q.outcome = "return" /\ lower(inputs[q.used]) = "n"
        THEN [q EXCEPT !.value = TRUE]
        ELSE q

\* query_yes_no(question, default) on the lines the operator types.
query_yes_no(default, inputs) ==
    IF ~default.none /\ default.s \notin {"yes", "no"}
    THEN [outcome |-> "ValueError", value |-> FALSE, used |-> 0, prompts |-> 0]
    ELSE query_loop(default, inputs, 1)

\* The lines left once a call has read its own.
Unread(inputs, q) == SubSeq(inputs, q.used + 1, Len(inputs))

\* ---------------------------------------------------------------- class Sa
\* The acquisition index of a file name.
IndexOf(name) == name[Len(name)]

\* A name with an underscore ends with its index; a name with none is one word.
TokenIsIndex(name, p) == p = Len(name) /\ Len(name) >= 2

\* The words of the names of the model, in the order of their strings.
WordRank(w) ==
    CASE w = "arch" -> 1 [] w = "bg" -> 2 [] w = "ct" -> 3 [] w = "dark" -> 4
      [] w = "im" -> 5 [] w = "notes" -> 6

\* The order of Python strings on names, from token p on: the zero-padded
\* indices by their number, digits before letters, and '.' (which ends the
\* shorter name) before '_'.
RECURSIVE LexLess(_, _, _)
LexLess(a, b, p) ==
    IF p > Len(a) THEN p <= Len(b)
    ELSE IF p > Len(b) THEN FALSE
    ELSE IF TokenIsIndex(a, p) /\ TokenIsIndex(b, p)
    THEN a[p] < b[p] \/ (a[p] = b[p] /\ LexLess(a, b, p + 1))
    ELSE IF TokenIsIndex(a, p) THEN TRUE
    ELSE IF TokenIsIndex(b, p) THEN FALSE
    ELSE WordRank(a[p]) < WordRank(b[p]) \/ (a[p] = b[p] /\ LexLess(a, b, p + 1))

\* sorted(...) on file names.
NameLess(a, b) == LexLess(a, b, 1)

SortNames(names) == SortSeq(names, NameLess)

\* Sa.list_files: the sorted names of the files that end with args.filetype.
HasType(f, filetype) == f.ext = filetype

list_files(d, filetype) ==
    LET found == SelectSeq(d, LAMBDA f : HasType(f, filetype))
    IN  SortNames([i \in 1..Len(found) |-> found[i].name])

\* x.split('_')[-2] == 'ct'
IsPilatus(name) == name[Len(name) - 1] = "ct"

\* x.split('_') of a name with no underscore has one element, and [-2]
\* raises IndexError.
pilatusfiles_raises(fl) == \E i \in 1..Len(fl) : Len(fl[i]) < 2

\* Sa.pilatusfiles: keeps the names whose second last token is 'ct'; when the
\* test raises, filelist stays as list_files left it.
pilatusfiles(fl) == IF pilatusfiles_raises(fl) THEN fl ELSE SelectSeq(fl, IsPilatus)

\* fabio.open(os.path.join(inpath, fn))
Open(d, name) == d[CHOOSE i \in 1..Len(d) : d[i].name = name]

\* The frame a file's data gives in the float32 stack.
FrameOf(f) == [p \in 1..Len(f.data) |-> Num(Float32(f.data[p]))]

NaNFrame(shape) == [p \in 1..(shape[1] * shape[2]) |-> NaN]

ZeroFrame(shape) == [p \in 1..(shape[1] * shape[2]) |-> Num(0)]

\* Sa.load_files: slot 0 is the first file, a later file fills its slot when
\* its shape is the first file's and leaves it NaN otherwise.
load_files_keep_zeros(d, fl) ==
    LET shape == Open(d, fl[1]).shape
    IN  [i \in 1..Len(fl) |->
            IF Open(d, fl[i]).shape = shape THEN FrameOf(Open(d, fl[i]))
            ELSE ZeroFrame(shape)]

load_files(d, fl) ==
    LET shape == Open(d, fl[1]).shape
    IN  [i \in 1..Len(fl) |->
            IF i = 1 \/ Open(d, fl[i]).shape = shape THEN FrameOf(Open(d, fl[i]))
            ELSE NaNFrame(shape)]

\* Sa.list_archives: the sorted names of the archives that end with
\* args.filetype.
list_archives(archives, filetype) ==
    LET found == SelectSeq(archives, LAMBDA f : HasType(f, filetype))
    IN  SortNames([i \in 1..Len(found) |-> found[i].name])

\* A scratch directory that does not exist.
NoScratch == [exists |-> FALSE, files |-> << >>]

\* Sa.extract_archive up to line 362, as [scratch, raised]: the scratch
\* directory it leaves and whether it raised.  reuse is the answer to the
\* question asked when the directory exists (False when none is asked).  A
\* directory that is not reused is removed and the archive is opened with
\* zipfile.ZipFile whatever its type, which raises BadZipFile on a .tar.gz.
extract_archive(scratch, archive, reuse) ==
    IF reuse THEN [scratch |-> scratch, raised |-> FALSE]
    ELSE IF archive.ext = ".zip"
         THEN [scratch |-> [exists |-> archive.members # << >>,
                            files |-> archive.members],
               raised |-> FALSE]
         ELSE [scratch |-> NoScratch, raised |-> TRUE]

\* lines 424-430 of Sa.manage_input with Sa.extract_archive: what they leave
\* for the answer reuse.  With no archive of the type archivelist[0] raises;
\* an empty scratch directory makes os.listdir(...)[0] raise.  The file type
\* becomes the extension of the first entry os.listdir gives.
resolve(reuse) ==
    LET here == locs[loc]
        al == list_archives(here.archives, args.filetype)
    IN  IF args.filetype \notin archivetypes
        THEN [locs |-> locs, filetype |-> args.filetype, intemp |-> intemp,
              use_archive |-> use_archive, temppath |-> temppath,
              reuse |-> use_existing_temppath, raised |-> FALSE]
        ELSE IF al = << >>
        THEN [locs |-> locs, filetype |-> args.filetype, intemp |-> intemp,
              use_archive |-> TRUE, temppath |-> temppath,
              reuse |-> use_existing_temppath, raised |-> TRUE]
        ELSE LET archive == here.archives[CHOOSE i \in 1..Len(here.archives) :
                                              here.archives[i].name = al[1]]
                 ex == extract_archive(here.scratch, archive, reuse)
                 listing == ex.scratch.files
             IN  [locs |-> [locs EXCEPT ![loc].scratch = ex.scratch],
                  filetype |-> IF listing = << >> THEN args.filetype
                               ELSE listing[1].ext,
                  intemp |-> ~ex.raised, use_archive |-> TRUE, temppath |-> loc,
                  reuse |-> reuse, raised |-> ex.raised \/ listing = << >>]

\* Sa.extract_archive asks whether to reuse the scratch directory: only when
\* the directory of the first archive exists.
AsksReuse ==
    /\ args.filetype \in archivetypes
    /\ list_archives(locs[loc].archives, args.filetype) # << >>
    /\ locs[loc].scratch.exists

\* Sa.manage_input.  A file type that is neither an archive type nor a frame
\* type leaves Sa.nimages None, and the comparison nimages > 0 raises: every
\* location after the first is reached with a frame file type only.  With no
\* frame found the program exits when verbose > 0 and goes on otherwise.
\* While query_yes_no gets no valid answer the program waits in it.
ManageInput ==
    /\ pc = "input"
    /\ LET q == query_yes_no(StrOf("yes"), stdin)
           r == resolve(AsksReuse /\ q.value)
           d == IF r.intemp THEN r.locs[loc].scratch.files ELSE r.locs[loc].files
           listed == r.filetype \in imagetypes
           fl == IF listed THEN pilatusfiles(list_files(d, r.filetype)) ELSE filelist
           indexerror == listed /\ pilatusfiles_raises(list_files(d, r.filetype))
           n == IF listed THEN Len(fl) ELSE nimages
       IN  /\ stdin' = IF AsksReuse THEN Unread(stdin, q) ELSE stdin
           /\ prompts' = IF AsksReuse THEN prompts + q.prompts ELSE prompts
           /\ IF AsksReuse /\ q.outcome = "waiting"
              THEN /\ pc' = "waiting"
                   /\ use_archive' = TRUE
                   /\ temppath' = loc
                   /\ use_existing_temppath' = FALSE
                   /\ asked' = asked
                   /\ trace' = Append(trace, <<loc, "Resolve">>)
                   /\ UNCHANGED <<locs, args, intemp, filelist, nimages, data2d>>
              ELSE /\ locs' = r.locs
                   /\ args' = [args EXCEPT !.filetype = r.filetype]
                   /\ intemp' = r.intemp
                   /\ use_archive' = r.use_archive
                   /\ temppath' = r.temppath
                   /\ use_existing_temppath' = r.reuse
                   /\ asked' = IF AsksReuse
                               THEN Append(asked, [loc |-> loc, reuse |-> r.reuse])
                               ELSE asked
                   /\ IF r.raised \/ ~listed
                      THEN /\ pc' = "error"
                           /\ trace' = Append(trace, <<loc, "Resolve">>)
                           /\ UNCHANGED <<filelist, nimages, data2d>>
                      ELSE IF indexerror
                      THEN /\ filelist' = fl
                           /\ nimages' = n
                           /\ pc' = "error"
                           /\ trace' = Append(trace, <<loc, "Resolve">>)
                           /\ UNCHANGED data2d
                      ELSE /\ filelist' = fl
                           /\ nimages' = n
                           /\ IF n > 0
                              THEN /\ data2d' = load_files(d, fl)
                                   /\ pc' = "avgers"
                                   /\ trace' = trace \o <<<<loc, "Resolve">>,
                                                          <<loc, "Load">>>>
                              ELSE /\ data2d' = data2d
                                   /\ pc' = IF args.verbose > 0 THEN "exit"
                                            ELSE "avgers"
                                   /\ trace' = Append(trace, <<loc, "Resolve">>)
    /\ UNCHANGED <<fs0, args0, argv, loc, avgers, idx, saves>>

\* lines 462-472: the queue of averagers the command line asks for.
RECURSIVE QueueOf(_, _)
QueueOf(a, k) ==
    IF k > Len(avgers_order) THEN << >>
    ELSE LET name == avgers_order[k]
             mine == CASE name = "sum" ->
                            IF a.sum THEN <<NewAvger(name, IntParam(1), a.uncertainty)>>
                            ELSE << >>
                       [] name = "average" ->
                            IF a.average THEN <<NewAvger(name, IntParam(1), a.uncertainty)>>
                            ELSE << >>
                       [] name = "median" ->
                            [j \in 1..Len(a.median) |->
                                NewAvger(name, a.median[j], a.uncertainty)]
                       [] name = "decosmic2d" ->
                            [j \in 1..Len(a.decosmic2d) |->
                                NewAvger(name, a.decosmic2d[j], a.uncertainty)]
         IN  mine \o QueueOf(a, k + 1)

\* Sa.manage_avgers up to its loop: the negative-to-NaN pass and the queue.
\* Without loaded frames the pass fails on the missing data2d; with an empty
\* queue the test of avger.success after the loop fails on the unbound avger.
ManageAvgersBegin ==
    /\ pc = "avgers"
    /\ IF data2d = None
       THEN /\ pc' = "error"
            /\ UNCHANGED <<data2d, avgers, idx>>
       ELSE /\ data2d' = IF args.negative_to_nan THEN MaskNegative(data2d) ELSE data2d
            /\ avgers' = QueueOf(args, 1)
            /\ idx' = 1
            /\ pc' = IF QueueOf(args, 1) = << >> THEN "error" ELSE "run"
    /\ trace' = Append(trace, <<loc, "Reduce">>)
    /\ UNCHANGED <<args, locs, fs0, args0, argv, stdin, prompts, asked, loc, intemp, use_archive, temppath,
                   use_existing_temppath, filelist, nimages, saves>>

\* The stack after a run of decosmic2d that partitions it in place
\* (ndarray.partition), every pixel's column left in ascending order.
StackAfter_partitioned_in_place(a, stack) ==
    IF a.name = "decosmic2d"
    THEN [i \in 1..Len(stack) |->
             [p \in 1..Len(stack[i]) |-> SortCol(Column(stack, p))[i]]]
    ELSE stack

\* The stack after avger.run(self.data2d): bn.nansum, bn.nanmean, bn.nanvar,
\* bn.nanmedian, np.amin and np.where read it, bn.partition returns a copy,
\* and run assigns to no element of it.
StackAfter(a, stack) == stack

\* One turn of the loop of manage_avgers (lines 473-496, preview off).
AvgerRunStep ==
    /\ pc = "run"
    /\ \E a \in Avger_run(avgers[idx], data2d) :
          avgers' = [avgers EXCEPT ![idx] = a]
    /\ data2d' = StackAfter(avgers[idx], data2d)
    /\ IF idx = Len(avgers)
       THEN pc' = "output" /\ idx' = 1
       ELSE pc' = pc /\ idx' = idx + 1
    /\ UNCHANGED <<args, locs, fs0, args0, argv, stdin, prompts, asked, loc, intemp, use_archive, temppath,
                   use_existing_temppath, filelist, nimages, saves, trace>>

\* lines 528 and 532: the output file name, as the parts it is joined from.
OutFn(fl, modestr, isvar, filetype) ==
    [first |-> fl[1], last |-> IndexOf(fl[Len(fl)]), modestr |-> modestr,
     var |-> isvar, ext |-> filetype]

Exists(files, fn) == \E f \in files : f.fn = fn

\* A call of save_file starts from and leaves [files, log, status, stdin,
\* prompts]: the files of the output location, the calls logged, "ok" or
\* "raised" or "waiting", the lines the operator has still to type and the
\* questions printed.
SaveState(files, log, status, inputs, nprompts) ==
    [files |-> files, log |-> log, status |-> status, stdin |-> inputs,
     prompts |-> nprompts]

\* Sa.save_file with the answer of query_yes_no left aside: it writes always.
save_file_always(st, fn, data) ==
    LET q == query_yes_no(StrOf("yes"), st.stdin)
        asks == Exists(st.files, fn)
        overwrite == ~asks \/ q.value
        put == {f \in st.files : f.fn # fn} \cup {[fn |-> fn, data |-> data]}
    IN  IF st.status # "ok" THEN {st}
        ELSE IF asks /\ q.outcome = "waiting"
        THEN {SaveState(st.files, st.log, "waiting", << >>, st.prompts + q.prompts)}
        ELSE {SaveState(put,
                        Append(st.log, [fn |-> fn, data |-> data,
                                        report |-> IF overwrite THEN "written"
                                                   ELSE "not written"]),
                        "ok",
                        IF asks THEN Unread(st.stdin, q) ELSE st.stdin,
                        IF asks THEN st.prompts + q.prompts ELSE st.prompts)}

\* Sa.save_file: the states it can leave.  An existing target is overwritten
\* only when query_yes_no answers yes, and the call reports the file as
\* written or as not written.  The outcome of fabio's save for data that is
\* None is not fixed by this repository: it raises or writes.
save_file(st, fn, data) ==
    LET q == query_yes_no(StrOf("yes"), st.stdin)
        asks == Exists(st.files, fn)
        overwrite == ~asks \/ q.value
        left == IF asks THEN Unread(st.stdin, q) ELSE st.stdin
        np == IF asks THEN st.prompts + q.prompts ELSE st.prompts
        log(report) == Append(st.log, [fn |-> fn, data |-> data, report |-> report])
        put == {f \in st.files : f.fn # fn} \cup {[fn |-> fn, data |-> data]}
    IN  IF st.status # "ok" THEN {st}
        ELSE IF asks /\ q.outcome = "waiting"
        THEN {SaveState(st.files, st.log, "waiting", << >>, st.prompts + q.prompts)}
        ELSE IF overwrite
        THEN IF data = None
             THEN {SaveState(put, log("written"), "ok", left, np),
                   SaveState(st.files, log("raised"), "raised", left, np)}
             ELSE {SaveState(put, log("written"), "ok", left, np)}
        ELSE {SaveState(st.files, log("not written"), "ok", left, np)}

\* Lines 535-536 of Sa.manage_output as [locs, raised]: the scratch directory
\* of an archive that was extracted in this run is removed; shutil.rmtree
\* raises when the directory is not there.
remove_temppath(ls) ==
    IF use_archive /\ ~use_existing_temppath
    THEN IF ls[temppath].scratch.exists
         THEN [locs |-> [ls EXCEPT ![temppath].scratch = NoScratch], raised |-> FALSE]
         ELSE [locs |-> ls, raised |-> TRUE]
    ELSE [locs |-> ls, raised |-> FALSE]

\* superavg's loop over args.inpaths (line 610): the position after k, and
\* the same position taken again.
next_location_again(k) == k

next_location(k) == k + 1

\* One turn of the loop of manage_output (lines 526-533); after the last one
\* the end of the stage and the step of superavg's loop to the next location.
\* An empty filelist makes the file name raise.
ManageOutputStep ==
    /\ pc = "output"
    /\ LET avger == avgers[idx]
           st0 == SaveState(outfiles, saves, "ok", stdin, prompts)
           nofile == avger.success = 1 /\ filelist = << >>
           fn == OutFn(filelist, avger.modestr, FALSE, args.filetype)
           fnvar == OutFn(filelist, avger.modestr, TRUE, args.filetype)
           after1 == IF nofile THEN {[st0 EXCEPT !.status = "raised"]}
                     ELSE IF avger.success = 1
                     THEN save_file(st0, fn, avger.data_avged)
                     ELSE {st0}
           after2 == IF avger.success = 1 /\ args.uncertainty /\ avger.var_avged # None
                     THEN UNION {save_file(st, fnvar, avger.var_avged) : st \in after1}
                     ELSE after1
       IN  \E st \in after2 :
              LET written == [locs EXCEPT ![loc].out = st.files]
                  rm == remove_temppath(written)
              IN  /\ saves' = st.log
                  /\ stdin' = st.stdin
                  /\ prompts' = st.prompts
                  /\ trace' = (IF idx = 1 THEN Append(trace, <<loc, "Output">>)
                               ELSE trace)
                              \o (IF st.status = "ok" /\ idx = Len(avgers) /\ ~rm.raised
                                  THEN <<<<loc, "OutputEnd">>>> ELSE << >>)
                  /\ IF st.status # "ok"
                     THEN /\ pc' = IF st.status = "raised" THEN "error" ELSE "waiting"
                          /\ locs' = written
                          /\ UNCHANGED <<idx, loc, intemp>>
                     ELSE IF idx < Len(avgers)
                     THEN /\ pc' = pc
                          /\ idx' = idx + 1
                          /\ locs' = written
                          /\ UNCHANGED <<loc, intemp>>
                     ELSE /\ locs' = rm.locs
                          /\ idx' = idx
                          /\ IF rm.raised THEN pc' = "error" /\ UNCHANGED <<loc, intemp>>
                             ELSE IF loc < Len(locs)
                             THEN pc' = "input" /\ loc' = next_location(loc) /\ intemp' = FALSE
                             ELSE pc' = "done" /\ UNCHANGED <<loc, intemp>>
    /\ UNCHANGED <<args, fs0, args0, argv, asked, use_archive, temppath,
                   use_existing_temppath, filelist, nimages, data2d, avgers>>

Next == ManageInput \/ ManageAvgersBegin \/ AvgerRunStep \/ ManageOutputStep

\* ------------------------------------------------------------------ inputs
\* The counts a frame pixel takes in the model.
PixelInts == {-1, 0, 1, 3}

\* The frames: one pixel with any of the counts, or two pixels.
Frames ==
    {[shape |-> <<1, 1>>, data |-> <<v>>] : v \in PixelInts}
        \cup {[shape |-> <<1, 2>>, data |-> <<3, -1>>]}

\* The input location holding the frames c[1], ..., c[n] as .tif files;
\* os.listdir gives them in no particular order, here last to first.
DirOf(c) ==
    [j \in 1..Len(c) |->
        LET i == Len(c) + 1 - j
        IN  [name |-> <<"im", "ct", i>>, ext |-> ".tif", shape |-> c[i].shape,
             data |-> c[i].data]]

Dirs == UNION {{DirOf(c) : c \in [1..n -> Frames]} : n \in 1..MaxFiles}

ArgsOf(sum, average, median, decosmic2d, nan, unc) ==
    [filetype |-> ".tif", sum |-> sum, average |-> average, median |-> median,
     decosmic2d |-> decosmic2d, negative_to_nan |-> nan, uncertainty |-> unc,
     verbose |-> 1]

\* An input location of loose frame files only.
Location(d) == [files |-> d, archives |-> << >>, scratch |-> NoScratch, out |-> {}]

\* Sa.__init__ and the start of superavg's loop: the options v parsed into
\* the command line a, the input locations ls and the lines w the operator
\* is going to type.
InitFrom(v, a, ls, w) ==
    /\ args = a
    /\ locs = ls
    /\ fs0 = ls
    /\ args0 = a
    /\ argv = v
    /\ stdin = w
    /\ prompts = 0
    /\ asked = << >>
    /\ loc = 1
    /\ intemp = FALSE
    /\ use_archive = FALSE
    /\ temppath = 0
    /\ use_existing_temppath = FALSE
    /\ filelist = None
    /\ nimages = 0
    /\ data2d = None
    /\ avgers = << >>
    /\ idx = 1
    /\ saves = << >>
    /\ trace = << >>
    /\ pc = "input"

\* The number of files and scratch directories of the locations that a
\* question can be asked about.
RECURSIVE Questions(_)
Questions(ls) ==
    IF ls = << >> THEN 0
    ELSE Cardinality(Head(ls).out) + (IF Head(ls).scratch.exists THEN 1 ELSE 0)
            + Questions(Tail(ls))

\* A run with args built by the caller, on the input locations ls, with an
\* operator who answers every question by y or n.
InitRun(a, ls) ==
    \E w \in [1..Questions(ls) -> {"y", "n"}] : InitFrom(None, a, ls, w)

\* A run on one input location of loose frame files.
InitWith(a, d) == InitRun(a, <<Location(d)>>)

\* Runs that select among sum and average.
Init ==
    \E d \in Dirs, s \in BOOLEAN, av \in BOOLEAN, nan \in BOOLEAN, unc \in BOOLEAN :
        InitWith(ArgsOf(s, av, << >>, << >>, nan, unc), d)

Spec == Init /\ [][Next]_vars

\* Runs of one grouped median: -med with a number of groups, or the averager
\* built with no number of groups.
InitMedian ==
    \E d \in Dirs, nan \in BOOLEAN, unc \in BOOLEAN,
       g \in {NoParam} \cup {IntParam(k) : k \in -1..MaxGroups} :
        InitWith(ArgsOf(FALSE, FALSE, <<g>>, << >>, nan, unc), d)

SpecMedian == InitMedian /\ [][Next]_vars

\* The values of -dc2d in the model: 0, 0.25, 0.5, 1.0, the out-of-range 1.5
\* and -0.5, and 1e-17, for which 1 - xhighest is 1.0.  For each of them and
\* every number of frames in the model the double product (1-xhighest)*nfiles
\* truncates to the same integer as the exact product.
XHighest ==
    {Dec(0, 0), Dec(25, -2), Dec(5, -1), Dec(1, 0), Dec(15, -1), Dec(-5, -1),
     Dec(1, -17)}

\* Runs of one decosmic2d.
InitDecosmic ==
    \E d \in Dirs, nan \in BOOLEAN, unc \in BOOLEAN, x \in XHighest :
        InitWith(ArgsOf(FALSE, FALSE, << >>, <<x>>, nan, unc), d)

SpecDecosmic == InitDecosmic /\ [][Next]_vars

\* The input locations of n frames of two pixels whose first pixels are the
\* values 1..n in any order and whose second pixels are the same values in
\* the opposite order.
DirsOneToN(n) ==
    {DirOf([i \in 1..n |-> [shape |-> <<1, 2>>, data |-> <<f[i], n + 1 - f[i]>>]]) :
        f \in {g \in [1..n -> 1..n] : \A i \in 1..n, j \in 1..n : g[i] = g[j] => i = j}}

\* Runs of decosmic2d with xhighest = 1.0 on FramesOneToN such frames.
InitOneToN ==
    \E d \in DirsOneToN(FramesOneToN), nan \in BOOLEAN, unc \in BOOLEAN :
        InitWith(ArgsOf(FALSE, FALSE, << >>, <<Dec(1, 0)>>, nan, unc), d)

SpecOneToN == InitOneToN /\ [][Next]_vars

\* The input locations of n one-pixel frames that all hold the count b, except
\* frame k (the first, the middle or the last one), which holds v.
DirsLong(n) ==
    {DirOf([i \in 1..n |-> [shape |-> <<1, 1>>, data |-> <<IF i = k THEN v ELSE b>>]]) :
        k \in {1, n \div 2, n}, b \in {0, 1, 3}, v \in {0, 1, 3}}

\* Runs of decosmic2d with xhighest = 0.01 on FramesLong such frames.
InitLong ==
    \E d \in DirsLong(FramesLong), nan \in BOOLEAN :
        InitWith(ArgsOf(FALSE, FALSE, << >>, <<Dec(1, -2)>>, nan, FALSE), d)

SpecLong == InitLong /\ [][Next]_vars

\* ------------------------------------------------- vocabulary of the claims
\* The reduction stage (manage_avgers) has run every averager of the queue.
Reduced == pc \in {"output", "done"}

HasAvger(name) == \E i \in 1..Len(avgers) : avgers[i].name = name

TheAvger(name) == avgers[CHOOSE i \in 1..Len(avgers) : avgers[i].name = name]

\* The file with acquisition index i.
FileNo(i) == dir[CHOOSE j \in 1..Len(dir) : IndexOf(dir[j].name) = i]

SameShapes == \A i \in 1..Len(dir), j \in 1..Len(dir) : dir[i].shape = dir[j].shape

NoNegativeCount == \A i \in 1..Len(dir) : \A p \in 1..Len(dir[i].data) : dir[i].data[p] >= 0

AllNaN(frame) == \A p \in 1..Len(frame) : frame[p].nan

CleanFrame(frame) == \A p \in 1..Len(frame) : ~frame[p].nan /\ frame[p].n >= 0

\* Slot k of the stack is entirely NaN, every other slot NaN-free and
\* non-negative.
OneNaNSlot(k) ==
    /\ k \in 1..Len(data2d)
    /\ AllNaN(data2d[k])
    /\ \A i \in 1..Len(data2d) : i # k => CleanFrame(data2d[i])

\* The stack with slot k removed.
Without(k) ==
    [i \in 1..(Len(data2d) - 1) |-> IF i < k THEN data2d[i] ELSE data2d[i + 1]]

\* ---------------------------------------------------------------------- C1
\* C1 as stated: for frames of one shape (so no slot of the stack is NaN), once
\* the reduction stage has run, negative-to-NaN pass included, the sum image is
\* N times the average image at every pixel.
C1_SumIsNTimesMean_AsStated ==
    (Reduced /\ HasAvger("sum") /\ HasAvger("average") /\ SameShapes)
        => \A p \in 1..NPix(data2d) :
              TheAvger("sum").data_avged[p]
                  = Times(Len(data2d), TheAvger("average").data_avged[p])

\* C1 amended: the same, for frames that hold no negative count whenever the
\* negative-to-NaN pass is enabled.
C1_SumIsNTimesMean ==
    (/\ Reduced /\ HasAvger("sum") /\ HasAvger("average") /\ SameShapes
     /\ (args.negative_to_nan => NoNegativeCount))
        => \A p \in 1..NPix(data2d) :
              TheAvger("sum").data_avged[p]
                  = Times(Len(data2d), TheAvger("average").data_avged[p])

\* A finished run over three same-shape frames without negative counts, the
\* pass enabled, whose sum and average differ.
C1_Witness ==
    /\ pc = "done" /\ HasAvger("sum") /\ HasAvger("average") /\ SameShapes
    /\ args.negative_to_nan /\ NoNegativeCount
    /\ Len(data2d) = 3
    /\ TheAvger("sum").data_avged # TheAvger("average").data_avged
    /\ TheAvger("average").data_avged[1].d = 3

\* ---------------------------------------------------------------------- C8
\* C8: load_files yields one slot per listed file, in list order: slot 0 holds
\* file 0, a later slot holds its file when the file has the shape of file 0
\* and is entirely NaN otherwise; a shape mismatch does not end the run.
C8_LoadFiles ==
    /\ pc # "exit"
    /\ pc = "avgers" =>
          /\ Len(filelist) = Len(dir)
          /\ Len(data2d) = Len(dir)
          /\ \A i \in 1..Len(data2d) :
                /\ filelist[i] = FileNo(i).name
                /\ Len(data2d[i]) = Len(FileNo(1).data)
                /\ IF i = 1 \/ FileNo(i).shape = FileNo(1).shape
                   THEN \A p \in 1..Len(data2d[i]) :
                           data2d[i][p] = Num(FileNo(i).data[p])
                   ELSE AllNaN(data2d[i])

\* Three files loaded, the second of another shape than the first, the third
\* of the same.
C8_Witness ==
    /\ pc = "avgers" /\ Len(data2d) = 3
    /\ FileNo(2).shape # FileNo(1).shape /\ AllNaN(data2d[2])
    /\ FileNo(3).shape = FileNo(1).shape /\ ~AllNaN(data2d[3])

\* ---------------------------------------------------------------------- C9
\* C9: when one slot of a stack of N >= 2 frames is entirely NaN and the other
\* slots are NaN-free and non-negative, the sum and the average are those of
\* the stack of N-1 frames without that slot.
C9_NaNSlotIgnored ==
    \A k \in 1..Len(data2d) :
        (Reduced /\ Len(data2d) >= 2 /\ OneNaNSlot(k)) =>
            /\ HasAvger("sum") =>
                  TheAvger("sum").data_avged
                      = RunSum(NewAvger("sum", IntParam(1), FALSE), Without(k)).data_avged
            /\ HasAvger("average") =>
                  TheAvger("average").data_avged
                      = RunAverage(NewAvger("average", IntParam(1), FALSE),
                                   Without(k)).data_avged

\* A finished run of both averagers over three slots, the middle one NaN, with
\* a non-zero average.
C9_Witness ==
    /\ pc = "done" /\ Len(data2d) = 3 /\ OneNaNSlot(2)
    /\ HasAvger("sum") /\ HasAvger("average")
    /\ TheAvger("average").data_avged[1].n > 0
    /\ TheAvger("average").data_avged[1].d = 2

\* Avger.run has run on averager i (it always leaves a label).
Ran(i) == i \in 1..Len(avgers) /\ avgers[i].modestr # NoModestr

\* save_file was called for averager i.
SavedFor(i) == \E j \in 1..Len(saves) : saves[j].fn.modestr = avgers[i].modestr

\* ---------------------------------------------------------------------- C5
\* C5: a grouped median with ngroups <= 1 is skipped: after Avger.run it has no
\* value image, its status is not Success, and the output stage calls save_file
\* for none of its images.
C5_FewGroupsSkipped ==
    \A i \in 1..Len(avgers) :
        (/\ Ran(i) /\ avgers[i].name = "median"
         /\ ~avgers[i].param.none /\ avgers[i].param.m <= 1)
            => /\ avgers[i].data_avged = None
               /\ avgers[i].success # 1
               /\ ~SavedFor(i)

\* ---------------------------------------------------------------------- C6
\* C6 as stated: the grouped median with ngroups = 1 of a stack of one frame
\* has that frame as its value image.
C6_OneGroupOneFrame_AsStated ==
    \A i \in 1..Len(avgers) :
        (/\ Ran(i) /\ avgers[i].name = "median"
         /\ avgers[i].param = IntParam(1) /\ Len(data2d) = 1)
            => avgers[i].data_avged = FrameOf(FileNo(1))

\* C6 amended: the grouped median with ngroups = 1 of a stack of one frame
\* leaves no value image at all.
C6_OneGroupOneFrame ==
    \A i \in 1..Len(avgers) :
        (/\ Ran(i) /\ avgers[i].name = "median"
         /\ avgers[i].param = IntParam(1) /\ Len(data2d) = 1)
            => avgers[i].data_avged = None

\* The finished run of a median with one group over one frame of two pixels.
C6_Witness ==
    /\ pc \in {"done", "error"} /\ Ran(1) /\ avgers[1].name = "median"
    /\ avgers[1].param = IntParam(1) /\ Len(data2d) = 1
    /\ NPix(data2d) = 2

\* ---------------------------------------------------------------------- C7
\* C7: with ngroups = N >= 2 (groups of one frame) the grouped median is, at
\* every pixel, the median of the frame values that are neither negative nor
\* NaN; the other values take no part in it.
C7_MedianOfFrames ==
    \A i \in 1..Len(avgers) :
        (/\ Ran(i) /\ avgers[i].name = "median" /\ Len(data2d) >= 2
         /\ avgers[i].param = IntParam(Len(data2d)))
            => \A p \in 1..NPix(data2d) :
                  avgers[i].data_avged[p]
                      = bn_nanmedian([k \in 1..Len(data2d) |->
                                         NonNegOrNaN(data2d[k][p])])

\* ---------------------------------------------------------------------- C2
\* The per-pixel minimum of the stack.
MinImage == [p \in 1..NPix(data2d) |-> SortCol(Column(data2d, p))[1]]

\* The per-pixel mean of the k lowest values of the stack.
MeanOfLowest(k) ==
    [p \in 1..NPix(data2d) |-> bn_nanmean(SubSeq(SortCol(Column(data2d, p)), 1, k))]

\* C2 as stated: with xhighest = 1.0 the number of values kept is N-1: for the
\* frames with values 1..N the result is the mean of the N-1 lowest values at
\* every pixel (2.5 for N = 5).
C2_KeepAllButOne_AsStated ==
    (Ran(1) /\ avgers[1].name = "decosmic2d" /\ avgers[1].param = Dec(1, 0))
        => avgers[1].data_avged = MeanOfLowest(Len(data2d) - 1)

\* C2 amended: with xhighest = 1.0 the number of values kept computes to 0 and
\* is raised to 1: for the frames with values 1..N the result is the minimum,
\* 1, at every pixel.
C2_KeepOne ==
    (Ran(1) /\ avgers[1].name = "decosmic2d" /\ avgers[1].param = Dec(1, 0))
        => /\ avgers[1].data_avged = MinImage
           /\ \A p \in 1..NPix(data2d) : avgers[1].data_avged[p] = Num(1)

\* The finished run on the frames whose first pixels are 3, 1, 4, ... : the
\* mean of the lowest N-1 values is not the result.
C2_Witness ==
    /\ pc = "done" /\ Ran(1) /\ avgers[1].param = Dec(1, 0)
    /\ Len(data2d) = FramesOneToN
    /\ data2d[1][1] = Num(3) /\ data2d[2][1] = Num(1) /\ data2d[3][1] = Num(4)
    /\ avgers[1].data_avged # MeanOfLowest(Len(data2d) - 1)

\* ---------------------------------------------------------------------- C3
\* C3 as stated: with xhighest = 0.01 on 100 frames one value is kept, so the
\* result is the per-pixel minimum.
C3_KeepOne_AsStated ==
    (Ran(1) /\ avgers[1].name = "decosmic2d" /\ avgers[1].param = Dec(1, -2)
     /\ Len(data2d) >= 100)
        => avgers[1].data_avged = MinImage

\* C3 amended: with xhighest = 0.01 on 100 frames 99 values are kept, so the
\* result is the per-pixel mean of the 99 lowest values.
C3_Keep99 ==
    (Ran(1) /\ avgers[1].name = "decosmic2d" /\ avgers[1].param = Dec(1, -2)
     /\ Len(data2d) >= 100)
        => avgers[1].data_avged = MeanOfLowest(99)

\* The finished run on 100 frames of count 3 but one of count 1: the result
\* is above the minimum.
C3_Witness ==
    /\ pc = "done" /\ Ran(1) /\ avgers[1].param = Dec(1, -2)
    /\ Len(data2d) >= 100
    /\ avgers[1].data_avged[1].d > 1
    /\ avgers[1].data_avged # MinImage

\* ---------------------------------------------------------------------- C4
\* xhighest lies outside (0, 1].
OutOfRange(x) == x.m <= 0 \/ ~LeOne(x)

\* C4: a decosmic2d whose xhighest lies outside (0, 1] fails: after Avger.run
\* its status is not Success, it has no value image, and the output stage
\* calls save_file for none of its images.
C4_OutOfRangeFails ==
    \A i \in 1..Len(avgers) :
        (Ran(i) /\ avgers[i].name = "decosmic2d" /\ OutOfRange(avgers[i].param))
            => /\ avgers[i].success # 1
               /\ avgers[i].data_avged = None
               /\ ~SavedFor(i)

\* --------------------------------------------------------------------- C10
\* C10: when one slot of a stack of N >= 2 frames is entirely NaN and the
\* other slots are NaN-free and non-negative, decosmic2d with xhighest in
\* (0, 1] gives the result it gives on the N-1 frames without that slot.
C10_NaNSlotIgnored ==
    \A i \in 1..Len(avgers), k \in 1..Len(data2d) :
        (/\ Ran(i) /\ avgers[i].name = "decosmic2d" /\ ~OutOfRange(avgers[i].param)
         /\ Len(data2d) >= 2 /\ OneNaNSlot(k))
            => \E r \in RunDecosmic2d(NewAvger("decosmic2d", avgers[i].param, FALSE),
                                      Without(k)) :
                  avgers[i].data_avged = r.data_avged

\* --------------------------------------------------------------------- C11
\* The image of a result file that is on the disk before the program starts.
OldImage == <<Num(7)>>

\* The result files named like the value (FALSE) or variance (TRUE) image of
\* the modes in old, for the frames of the input location d.
OldOutputs(d, old) ==
    {[fn |-> OutFn(pilatusfiles(list_files(d, ".tif")),
                   [kind |-> o[1], m |-> 0, e |-> 0], o[2], ".tif"),
      data |-> OldImage] : o \in old}

\* Runs of sum and average on a location of at most two frames that already
\* holds some of the result files.
InitOverwrite ==
    \E d \in {x \in Dirs : Len(x) <= 2}, s \in BOOLEAN, av \in BOOLEAN, unc \in BOOLEAN,
       old \in SUBSET ({"SUM", "AVG"} \X BOOLEAN) :
        InitRun(ArgsOf(s, av, << >>, << >>, FALSE, unc),
                <<[Location(d) EXCEPT !.out = OldOutputs(d, old)]>>)

SpecOverwrite == InitOverwrite /\ [][Next]_vars

\* The calls of save_file made by the step.
NewSaves == {saves'[j] : j \in (Len(saves) + 1)..Len(saves')}

\* C11: when save_file is called for a target that exists and the operator
\* declines the overwrite, the file is on the disk unchanged after the call and
\* the call is reported as not written, not as an error: the step fails only
\* if another call of it raised.  A file that was there before the run is
\* unchanged as long as every call for its name was declined.
C11_DeclinedKeepsFile ==
    [][/\ \A c \in NewSaves :
              c.report = "not written"
                  => /\ \E f \in outfiles : f.fn = c.fn
                     /\ \A f \in outfiles : f.fn = c.fn => f \in locs'[loc].out
                     /\ pc' = "error" => \E k \in NewSaves : k.report = "raised"
       /\ \A f \in fs0[loc].out :
              (\A j \in 1..Len(saves') :
                    saves'[j].fn = f.fn => saves'[j].report = "not written")
                  => f \in locs'[loc].out]_vars

\* An overwrite was declined and the old file, which differs from the result,
\* is still there at the end of the run.
C11_Witness ==
    /\ pc = "done"
    /\ \E j \in 1..Len(saves), f \in fs0[1].out :
          /\ saves[j].report = "not written"
          /\ f.fn = saves[j].fn /\ f.data # saves[j].data
          /\ f \in outfiles

\* --------------------------------------------------- runs over locations
\* The largest number of input locations of a run.
MaxLocs == 2

Archive(ext, members) == [name |-> <<"arch", 1>>, ext |-> ext, members |-> members]

\* A scratch directory that exists and holds files.
Scratch(files) == [exists |-> TRUE, files |-> files]

\* Two frames with the counts 1 and 3, and one frame with the count 0.
FramesA == DirOf(<<[shape |-> <<1, 1>>, data |-> <<1>>], [shape |-> <<1, 1>>, data |-> <<3>>]>>)

FramesB == DirOf(<<[shape |-> <<1, 1>>, data |-> <<0>>]>>)

\* The input locations of the runs: empty, or loose frames, or a .zip archive
\* of FramesA (with or without loose frames beside it) whose scratch directory
\* does not exist or holds the archive's frames or other frames, or a .tar.gz
\* archive whose scratch directory does not exist or holds its frames.
LocKinds ==
    {Location(<< >>), Location(FramesA), Location(FramesB)}
        \cup {[files |-> f, archives |-> <<Archive(".zip", FramesA)>>, scratch |-> sc,
               out |-> {}] :
                 f \in {<< >>, FramesB}, sc \in {NoScratch, Scratch(FramesA), Scratch(FramesB)}}
        \cup {[files |-> << >>, archives |-> <<Archive(".tar.gz", FramesA)>>,
               scratch |-> sc, out |-> {}] : sc \in {NoScratch, Scratch(FramesA)}}

\* Runs over one to MaxLocs locations with a frame or archive file type, at
\* verbosity 0 or 1, with the sum selected or no averager at all.
InitLocations ==
    \E n \in 1..MaxLocs, ft \in {".tif"} \cup archivetypes, v \in {0, 1}, s \in BOOLEAN :
        \E ls \in [1..n -> LocKinds] :
            InitRun([ArgsOf(s, FALSE, << >>, << >>, TRUE, FALSE)
                        EXCEPT !.filetype = ft, !.verbose = v], ls)

SpecLocations == InitLocations /\ [][Next]_vars

\* The operator asked for archives and location k holds one of that type.
ArchiveRun(k) ==
    /\ args0.filetype \in archivetypes
    /\ list_archives(fs0[k].archives, args0.filetype) # << >>

\* The operator was asked about the scratch directory of location k and chose
\* to reuse it.
ChoseReuse(k) == \E j \in 1..Len(asked) : asked[j].loc = k /\ asked[j].reuse

\* The step ends the output stage of the current location.
OutputEnds == pc = "output" /\ pc' \in {"input", "done"}

\* --------------------------------------------------------------------- C12
\* C12: when the output stage of an archive location ends, the location's
\* scratch directory exists if and only if it existed before the run and the
\* operator chose to reuse it.
C12_ScratchKeptIffReused ==
    [][(OutputEnds /\ ArchiveRun(loc))
          => (locs'[loc].scratch.exists
                <=> (fs0[loc].scratch.exists /\ ChoseReuse(loc)))]_vars

\* Stage st of location k has been entered.
Entered(k, st) == \E j \in 1..Len(trace) : trace[j] = <<k, st>>

\* The scratch directory of the current location was extracted in this run.
FreshlyExtracted == use_archive /\ temppath = loc /\ intemp /\ ~use_existing_temppath

\* --------------------------------------------------------------------- C13
\* C13: when the run of an archive location whose scratch directory was
\* freshly extracted has ended in an unhandled error after its frames were
\* loaded (while reducing or writing an output), the scratch directory has
\* been removed.
C13_ScratchRemovedOnError ==
    (pc = "error" /\ ArchiveRun(loc) /\ FreshlyExtracted /\ Entered(loc, "Load"))
        => ~locs[loc].scratch.exists

\* --------------------------------------------------------------------- C14
\* Resolve finds nothing at location k: no frame of the file type the operator
\* gave that follows the naming convention, or no archive of that type.
ZeroFound(k) ==
    IF args0.filetype \in archivetypes
    THEN list_archives(fs0[k].archives, args0.filetype) = << >>
    ELSE pilatusfiles(list_files(fs0[k].files, args0.filetype)) = << >>

\* The program has ended: normally, by sys.exit or by an unhandled error.
Ended == pc \in {"done", "exit", "error"}

\* C14: in a run over several locations, a location at which Resolve finds
\* nothing is not reduced and gets no output, and once the program has ended
\* every later location has been processed from Resolve through Output.
C14_EmptyLocationStopsItselfOnly ==
    \A k \in 1..Len(locs) :
        (Len(locs) > 1 /\ Entered(k, "Resolve") /\ ZeroFound(k))
            => /\ ~Entered(k, "Reduce")
               /\ ~Entered(k, "Output")
               /\ Ended => \A j \in (k + 1)..Len(locs) :
                                Entered(j, "Resolve") /\ Entered(j, "Output")

\* --------------------------------------------------------------------- C15
\* The number of frames of the end-to-end example.
FramesTen == 10

\* The input location of n frames of 4x4 pixels, every pixel of frame k
\* (k = 0..n-1, the file with acquisition index k+1) holding the count k;
\* os.listdir gives the files from the one with index r+1 on, cyclically.
DirTen(n, r) ==
    [j \in 1..n |->
        LET i == ((j + r - 1) % n) + 1
        IN  [name |-> <<"im", "ct", i>>, ext |-> ".tif", shape |-> <<4, 4>>,
             data |-> [p \in 1..16 |-> i - 1]]]

\* Runs of the average with the negative-to-NaN pass and the variance image,
\* alone or after a sum, before a median or a decosmic2d.
InitTen ==
    \E r \in 0..(FramesTen - 1), s \in BOOLEAN, g \in {<< >>, <<IntParam(2)>>},
       x \in {<< >>, <<Dec(5, -1)>>} :
        InitRun(ArgsOf(s, TRUE, g, x, TRUE, TRUE), <<Location(DirTen(FramesTen, r))>>)

SpecTen == InitTen /\ [][Next]_vars

\* The image whose every pixel is v.
Flat(v) == [p \in 1..NPix(data2d) |-> v]

\* The file save_file wrote for the average: its value or variance image.
Written(kind, isvar) ==
    {f.data : f \in {g \in outfiles : g.fn.modestr.kind = kind /\ g.fn.var = isvar}}

\* C15: end to end, for N frames in which every pixel of frame k is k
\* (k = 0..N-1), with the negative-to-NaN pass on and the variance requested,
\* the average is (N-1)/2 at every pixel of the value image and the population
\* variance (N*N-1)/12 at every pixel of the variance image, in the averager
\* and in the files written: 4.5 and 8.25 for the 10 frames of the example.
C15_MeanAndVarianceOfTen ==
    LET n == Len(data2d)
    IN  /\ (Reduced /\ HasAvger("average"))
              => /\ TheAvger("average").data_avged = Flat(Rat(n - 1, 2))
                 /\ TheAvger("average").var_avged = Flat(Rat(n * n - 1, 12))
        /\ pc = "done"
              => /\ Written("AVG", FALSE) = {Flat(Rat(n - 1, 2))}
                 /\ Written("AVG", TRUE) = {Flat(Rat(n * n - 1, 12))}

\* The run of the example has ended: ten frames of 16 pixels, the average
\* image 4.5 (9/2) and the variance image 8.25 (33/4) written.
C15_Witness ==
    /\ pc = "done"
    /\ Len(data2d) = 10 /\ NPix(data2d) = 16
    /\ \A k \in 1..10 : data2d[k] = [p \in 1..16 |-> Num(k - 1)]
    /\ Written("AVG", FALSE) = {[p \in 1..16 |-> [nan |-> FALSE, n |-> 9, d |-> 2]]}
    /\ Written("AVG", TRUE) = {[p \in 1..16 |-> [nan |-> FALSE, n |-> 33, d |-> 4]]}

\* --------------------------------------------------------------------- C16
\* The place of a stage in the order of the stages of one location.
StageRank(st) ==
    CASE st = "Resolve" -> 1
      [] st = "Load" -> 2
      [] st = "Reduce" -> 3
      [] st = "Output" -> 4
      [] st = "OutputEnd" -> 5

\* C16: the locations are taken in the order of the list, the stages a
\* location goes through are entered in the order Resolve, Load, Reduce,
\* Output and each at most once, and Resolve of location k+1 starts only
\* right after the output stage of location k, scratch teardown included, has
\* finished.
C16_StagesInOrder ==
    /\ \A i \in 1..Len(trace), j \in 1..Len(trace) :
          i < j => \/ trace[i][1] < trace[j][1]
                   \/ /\ trace[i][1] = trace[j][1]
                      /\ StageRank(trace[i][2]) < StageRank(trace[j][2])
    /\ \A j \in 1..Len(trace) :
          trace[j][2] = "Resolve"
              => IF trace[j][1] = 1 THEN j = 1
                 ELSE j > 1 /\ trace[j - 1] = <<trace[j][1] - 1, "OutputEnd">>

\* A run over two locations has ended with all four stages of both entered.
C16_Witness ==
    /\ pc = "done"
    /\ Len(locs) = 2
    /\ \A k \in 1..2 : \A st \in {"Resolve", "Load", "Reduce", "Output", "OutputEnd"} :
          Entered(k, st)

\* --------------------------------------------------------------------- C17
\* Sa.manage_input is about to call extract_archive: the file type is an
\* archive type and the location holds an archive of it.
Extracting ==
    /\ pc = "input"
    /\ args.filetype \in archivetypes
    /\ list_archives(locs[loc].archives, args.filetype) # << >>

\* The archive extract_archive is called for: archivelist[0].
FirstArchive ==
    LET al == list_archives(locs[loc].archives, args.filetype)
    IN  locs[loc].archives[CHOOSE i \in 1..Len(locs[loc].archives) :
                              locs[loc].archives[i].name = al[1]]

\* C17: extract_archive asks the operator exactly when the scratch directory
\* exists; on yes the directory is left as it is, and on no, or when the
\* directory does not exist, the scratch directory afterwards holds the
\* freshly extracted files of the archive.
C17_ReuseOrExtract ==
    [][Extracting
          => /\ (Len(asked') = Len(asked) + 1) <=> locs[loc].scratch.exists
             /\ Len(asked') = Len(asked) \/ Len(asked') = Len(asked) + 1
             /\ IF locs[loc].scratch.exists /\ use_existing_temppath'
                THEN locs'[loc].scratch = locs[loc].scratch
                ELSE locs'[loc].scratch = Scratch(FirstArchive.members)]_vars

\* --------------------------------------------------------------------- C18
\* The exact product (1 - x) * n as the fraction a / s, for 0 < x <= 1 with an
\* exponent of at least -9.
KeepNumer(x, n) == (Pow10(-x.e) - x.m * Pow10(x.e)) * n

KeepDenom(x) == Pow10(-x.e)

\* floor((1 - x) * n); below 1e-9 the product lies between n - 1 and n.
KeepFloor(x, n) ==
    IF x.e < -9 THEN n - 1
    ELSE CHOOSE k \in 0..n :
            k * KeepDenom(x) <= KeepNumer(x, n)
                /\ KeepNumer(x, n) < (k + 1) * KeepDenom(x)

\* round((1 - x) * n), a tie going to the even neighbour.
KeepRound(x, n) ==
    IF x.e < -9 THEN n
    ELSE CHOOSE k \in 0..n :
            LET twice == 2 * Abs(KeepNumer(x, n) - k * KeepDenom(x))
            IN  twice < KeepDenom(x) \/ (twice = KeepDenom(x) /\ k % 2 = 0)

\* Raised to 1 when 0, lowered to n - 1 when n (and n - 1 is not 0).
ClampKeep(k, n) == IF k = 0 THEN 1 ELSE IF k = n /\ n > 1 THEN n - 1 ELSE k

\* Pixel p of the stack has no NaN in any frame.
NaNFreeColumn(p) == ~HasNaN(Column(data2d, p))

\* The mean of the k lowest values of pixel p.
LowestMean(p, k) == bn_nanmean(LowestPart(Column(data2d, p), k))

\* C18 as stated: decosmic2d with xhighest in (0, 1] averages, at every pixel
\* (here: every pixel with NaN-free values), the n_keep lowest values, n_keep
\* being round((1 - xhighest) * N) raised to 1 when 0 and lowered to N-1 when N.
C18_KeepRounded_AsStated ==
    \A i \in 1..Len(avgers) :
        (Ran(i) /\ avgers[i].name = "decosmic2d" /\ ~OutOfRange(avgers[i].param))
            => \A p \in 1..NPix(data2d) :
                  NaNFreeColumn(p)
                      => avgers[i].data_avged[p]
                            = LowestMean(p, ClampKeep(KeepRound(avgers[i].param,
                                                                 Len(data2d)),
                                                       Len(data2d)))

\* C18 amended: n_keep is (1 - xhighest) * N truncated, not rounded, then
\* raised to 1 when 0 and lowered to N-1 when N; at every pixel whose values
\* are NaN-free the result is the mean of the n_keep lowest values, which for
\* n_keep = 1 is the minimum; at a pixel with a NaN value it is NaN or the
\* NaN-ignoring mean of some n_keep of the pixel's values.
C18_KeepTruncated ==
    \A i \in 1..Len(avgers) :
        (Ran(i) /\ avgers[i].name = "decosmic2d" /\ ~OutOfRange(avgers[i].param))
            => LET n_keep == ClampKeep(KeepFloor(avgers[i].param, Len(data2d)),
                                       Len(data2d))
                   got == avgers[i].data_avged
               IN  \A p \in 1..NPix(data2d) :
                      IF NaNFreeColumn(p)
                      THEN /\ got[p] = LowestMean(p, n_keep)
                           /\ n_keep = 1
                                => \A k \in 1..Len(data2d) :
                                      ~ValueLess(data2d[k][p], got[p])
                      ELSE \/ got[p] = NaN
                           \/ \E S \in SUBSET (1..Len(data2d)) :
                                 /\ Cardinality(S) = n_keep
                                 /\ got[p] = bn_nanmean(PickPart(Column(data2d, p), S))

\* The finished run with xhighest = 0.5 on the frames 1, 0, 3: 1.5 truncates
\* to 1 and the result is the minimum 0, not the mean 0.5 of the two lowest.
C18_Witness ==
    /\ pc = "done" /\ Ran(1) /\ avgers[1].name = "decosmic2d"
    /\ avgers[1].param = Dec(5, -1)
    /\ data2d = <<<<Num(1)>>, <<Num(0)>>, <<Num(3)>>>>
    /\ avgers[1].data_avged = <<Num(0)>>
    /\ KeepRound(avgers[1].param, 3) = 2 /\ KeepFloor(avgers[1].param, 3) = 1

\* ------------------------------------------------ runs of grouped medians
\* The largest number of frames of a run of a grouped median.
MaxGroupFiles == 4

\* The input locations of two to MaxGroupFiles one-pixel frames.
DirsGroups ==
    UNION {{DirOf([i \in 1..n |-> [shape |-> <<1, 1>>, data |-> <<c[i]>>]]) :
               c \in [1..n -> PixelInts]} : n \in 2..MaxGroupFiles}

\* Runs of one grouped median with two to MaxGroups groups.
InitGroups ==
    \E d \in DirsGroups, nan \in BOOLEAN, g \in 2..MaxGroups :
        InitWith(ArgsOf(FALSE, FALSE, <<IntParam(g)>>, << >>, nan, FALSE), d)

SpecGroups == InitGroups /\ [][Next]_vars

\* Averager i is a grouped median with 2 <= ngroups <= N that has run.
GroupedMedianRan(i) ==
    /\ Ran(i) /\ avgers[i].name = "median" /\ ~avgers[i].param.none
    /\ avgers[i].param.m >= 2 /\ avgers[i].param.m <= Len(data2d)

\* The stack with its last r frames replaced by frames of the value v.
ReplaceTail(r, v) ==
    [k \in 1..Len(data2d) |->
        IF k > Len(data2d) - r THEN [p \in 1..NPix(data2d) |-> v] ELSE data2d[k]]

\* The values of pixel p in the frames (g-1)*n+1 .. g*n of the stack: group g
\* (from 1) of groups of n frames.
GroupOf(p, g, n) == [k \in 1..n |-> data2d[(g - 1) * n + k][p]]

\* --------------------------------------------------------------------- C19
\* C19: a grouped median with 2 <= ngroups <= N uses ngroups groups of
\* floor(N/ngroups) consecutive frames from the start of the stack: its result
\* stays the same whatever values the last N mod ngroups frames take, and it
\* is the result for the stack cut to the frames of the groups.
C19_GroupsFromStart ==
    \A i \in 1..Len(avgers) :
        GroupedMedianRan(i)
            => LET ngroups == avgers[i].param.m
                   n == Len(data2d) \div ngroups
                   r == Len(data2d) % ngroups
                   fresh == NewAvger("median", avgers[i].param, FALSE)
               IN  /\ \A v \in {Num(c) : c \in PixelInts} \cup {NaN} :
                         RunMedian(fresh, ReplaceTail(r, v)).data_avged
                             = avgers[i].data_avged
                   /\ RunMedian(fresh, SubSeq(data2d, 1, ngroups * n)).data_avged
                         = avgers[i].data_avged

\* The finished median of two groups over the frames 1, 3, 0: the result 2 is
\* the median of the first two frames, the third is left out.
C19_Witness ==
    /\ pc = "done" /\ GroupedMedianRan(1)
    /\ avgers[1].param = IntParam(2)
    /\ data2d = <<<<Num(1)>>, <<Num(3)>>, <<Num(0)>>>>
    /\ avgers[1].data_avged = <<Num(2)>>

\* --------------------------------------------------------------------- C20
\* The NaN-ignoring sum of the values that are not negative.
NonNegSum(vals) == bn_nansum(SelectSeq(vals, LAMBDA v : ~v.nan /\ v.n >= 0))

HasFlag(v, f) == \E i \in DOMAIN v : v[i].flag = f

\* argparse stores the values of the last occurrence of a flag.
LastVals(v, f) ==
    v[CHOOSE i \in DOMAIN v :
          v[i].flag = f /\ \A j \in DOMAIN v : j > i => v[j].flag # f].vals

\* parser.parse_args() and lines 592-601 of superavg.  -sum, -avg, -u are
\* store_true flags; -nan is store_true with default True, so it is True
\* whether given or not; -med and -dc2d take any number of values and get
\* the default value when given with none; -inp takes any number of paths
\* and defaults to the string './'.
parse_args(v) ==
    [inpaths |-> IF HasFlag(v, "-inp") THEN LastVals(v, "-inp") ELSE inpath_default,
     filetype |-> IF HasFlag(v, "-type") THEN LastVals(v, "-type")[1]
                  ELSE filetype_default,
     sum |-> HasFlag(v, "-sum"),
     average |-> HasFlag(v, "-avg"),
     median |-> IF ~HasFlag(v, "-med") THEN None
                ELSE IF LastVals(v, "-med") = << >> THEN <<IntParam(ngroups_default)>>
                ELSE LastVals(v, "-med"),
     decosmic2d |-> IF ~HasFlag(v, "-dc2d") THEN None
                    ELSE IF LastVals(v, "-dc2d") = << >> THEN <<xhighest_default>>
                    ELSE LastVals(v, "-dc2d"),
     negative_to_nan |-> HasFlag(v, "-nan") \/ nan_default,
     uncertainty |-> HasFlag(v, "-u") \/ uncertainty_default,
     verbose |-> IF HasFlag(v, "-v") THEN LastVals(v, "-v")[1]
                 ELSE verbose_level_default]

Opt(flag, vals) == [flag |-> flag, vals |-> vals]

\* superavg started with the command line v in a file system that has the
\* location disk[p] at path p; the operator is going to type the lines w.
InitArgv(v, disk, w) ==
    InitFrom(v, parse_args(v),
             [k \in 1..Len(parse_args(v).inpaths) |-> disk[parse_args(v).inpaths[k]]], w)

\* Runs of a queue of reducers chosen on the command line, on one location.
MaxOptions == 3

\* The options that choose reducers, and -u.
QueueOptions ==
    {Opt("-sum", << >>), Opt("-avg", << >>), Opt("-u", << >>),
     Opt("-med", <<IntParam(1)>>), Opt("-med", <<IntParam(2)>>), Opt("-med", << >>),
     Opt("-dc2d", << >>), Opt("-dc2d", <<Dec(1, -4), Dec(14, -5)>>)}

CommandLines == UNION {[1..n -> QueueOptions] : n \in 1..MaxOptions}

\* Three and four one-pixel frames.
DirsQueue ==
    {DirOf(<<[shape |-> <<1, 1>>, data |-> <<3>>], [shape |-> <<1, 1>>, data |-> <<0>>],
             [shape |-> <<1, 1>>, data |-> <<1>>]>>),
     DirOf(<<[shape |-> <<1, 1>>, data |-> <<1>>], [shape |-> <<1, 1>>, data |-> <<-1>>],
             [shape |-> <<1, 1>>, data |-> <<3>>], [shape |-> <<1, 1>>, data |-> <<3>>]>>)}

InitQueue ==
    \E v \in CommandLines, d \in DirsQueue, w \in {<<"y">>, <<"n">>} :
        InitArgv(<<Opt("-inp", <<"A">>)>> \o v, [p \in {"A"} |-> Location(d)], w)

SpecQueue == InitQueue /\ [][Next]_vars

\* ---------------------------------------------------------------- C21
\* The position of the last occurrence of a flag on the command line.
FlagPos(f) ==
    CHOOSE i \in DOMAIN argv : argv[i].flag = f /\ \A j \in DOMAIN argv : j > i => argv[j].flag # f

FlagOf(name) ==
    CASE name = "sum" -> "-sum" [] name = "average" -> "-avg"
      [] name = "median" -> "-med" [] name = "decosmic2d" -> "-dc2d"

KindRank(name) ==
    CASE name = "sum" -> 1 [] name = "average" -> 2
      [] name = "median" -> 3 [] name = "decosmic2d" -> 4

LabelRank(kind) ==
    CASE kind = "SUM" -> 1 [] kind = "AVG" -> 2 [] kind = "MED_OF" -> 3 [] kind = "DC2D" -> 4

\* The parameters of the queued reducers of one kind, in queue order.
QueuedParams(name) ==
    LET mine == SelectSeq(avgers, LAMBDA a : a.name = name)
    IN  [i \in 1..Len(mine) |-> mine[i].param]

\* C21 as stated: reducers of different kinds are queued in the order in which
\* their flags were submitted on the command line.
C21_SubmissionOrder_AsStated ==
    \A i, j \in DOMAIN avgers :
        i < j /\ avgers[i].name # avgers[j].name
            => FlagPos(FlagOf(avgers[i].name)) < FlagPos(FlagOf(avgers[j].name))

\* C21 (amended): whatever the order of the flags on the command line, the
\* reducers are queued, run and written in the fixed order sum, average,
\* median, decosmic2d, and within a kind in the order of the values given.
C21_FixedKindOrder ==
    /\ \A i, j \in DOMAIN avgers :
          i < j => KindRank(avgers[i].name) <= KindRank(avgers[j].name)
    /\ avgers # << >> =>
          /\ QueuedParams("median") = args0.median
          /\ QueuedParams("decosmic2d") = args0.decosmic2d
    /\ \A i, j \in DOMAIN avgers : i < j /\ avgers[j].success = 1 => avgers[i].success = 1
    /\ \A i, j \in DOMAIN saves :
          i < j => LabelRank(saves[i].fn.modestr.kind) <= LabelRank(saves[j].fn.modestr.kind)

\* -dc2d was submitted before -sum, and the sum was written first.
C21_Witness ==
    /\ pc = "done"
    /\ HasFlag(argv, "-sum") /\ HasFlag(argv, "-dc2d")
    /\ FlagPos("-dc2d") < FlagPos("-sum")
    /\ Len(saves) >= 2
    /\ saves[1].fn.modestr.kind = "SUM"
    /\ saves[Len(saves)].fn.modestr.kind = "DC2D"

\* ---------------------------------------------------------------- C22
\* The stack of the location as manage_input and the first lines of
\* manage_avgers leave it, computed from the files and not from data2d.
StackGiven ==
    IF args0.negative_to_nan THEN MaskNegative(load_files(dir, filelist))
    ELSE load_files(dir, filelist)

RECURSIVE ExpectedSaves(_)
ExpectedSaves(i) ==
    IF i > Len(avgers) THEN << >>
    ELSE LET a == avgers[i]
             value == <<[fn |-> OutFn(filelist, a.modestr, FALSE, args.filetype),
                         data |-> a.data_avged]>>
             var == IF args0.uncertainty /\ a.var_avged # None
                    THEN <<[fn |-> OutFn(filelist, a.modestr, TRUE, args.filetype),
                            data |-> a.var_avged]>>
                    ELSE << >>
         IN  (IF a.success = 1 THEN value \o var ELSE << >>) \o ExpectedSaves(i + 1)

\* The calls of save_file made, in order.
SaveAttempts == [i \in 1..Len(saves) |-> [fn |-> saves[i].fn, data |-> saves[i].data]]

\* The Output stage of the location is over: it returned or it raised.
OutputOver ==
    \/ pc = "done"
    \/ pc = "error" /\ \E i \in DOMAIN trace : trace[i] = <<loc, "Output">>

C23_WhenOutputReturns ==
    /\ pc = "done" => SaveAttempts = ExpectedSaves(1)
    /\ \A i \in DOMAIN avgers : avgers[i].name = "median" => avgers[i].var_avged = None

\* ---------------------------------------------------------------- C24
\* Two reducers of the queue that have both run and differ in kind or in
\* parameter value.
DifferentReducers(i, j) ==
    /\ i # j
    /\ avgers[i].modestr # NoModestr /\ avgers[j].modestr # NoModestr
    /\ avgers[i].name # avgers[j].name \/ avgers[i].param # avgers[j].param

\* C24: two reducers of one run that differ in kind or in parameter value
\* have different labels and different output file names, and in a run that
\* starts with no result file no save meets a file that is already there.
C24_DistinctLabels ==
    /\ \A i, j \in DOMAIN avgers :
          DifferentReducers(i, j) =>
              /\ avgers[i].modestr # avgers[j].modestr
              /\ OutFn(filelist, avgers[i].modestr, FALSE, args.filetype)
                    # OutFn(filelist, avgers[j].modestr, FALSE, args.filetype)
    /\ fs0[loc].out = {} => prompts = 0 /\ \A k \in DOMAIN saves : saves[k].report # "not written"

\* ---------------------------------------------------------------- C25
\* C25: whenever Resolve is about to start at a location, the file type is
\* the one the operator gave and nothing of the archive handling of an
\* earlier location is left (no archive in use, no scratch directory chosen
\* for reuse); and the step that ends the Output stage of a location changes
\* no scratch directory but the one freshly extracted for that location.
C25_LocationsIndependent ==
    [][/\ pc' = "input" =>
             /\ args'.filetype = args0.filetype
             /\ ~use_archive' /\ ~use_existing_temppath'
       /\ OutputEnds =>
             \A j \in DOMAIN locs :
                 locs'[j].scratch # locs[j].scratch => j = loc /\ FreshlyExtracted]_vars

\* ---------------------------------------------------------------- C26
\* Runs on one location whose files have names of several forms.
MaxNames == 3

\* im_ct_0001, im_ct_0002, ct_0001, im_dark_0001, bg_0001 and notes.
NamesListed ==
    {<<"im", "ct", 1>>, <<"im", "ct", 2>>, <<"ct", 1>>, <<"im", "dark", 1>>, <<"bg", 1>>,
     <<"notes">>}

\* The listings of os.listdir: files with different names, in any order.
DirsNames ==
    UNION {{[i \in 1..n |-> [name |-> c[i], ext |-> ".tif", shape |-> <<1, 1>>,
                             data |-> <<1>>]] :
               c \in {x \in [1..n -> NamesListed] : \A i, j \in 1..n : x[i] = x[j] => i = j}} :
           n \in 1..MaxNames}

InitNames ==
    \E v \in {<<Opt("-sum", << >>)>>, <<Opt("-avg", << >>), Opt("-v", <<0>>)>>},
       d \in DirsNames :
        InitArgv(<<Opt("-inp", <<"A">>)>> \o v, [p \in {"A"} |-> Location(d)], << >>)

SpecNames == InitNames /\ [][Next]_vars

\* The names of the location that have an underscore and 'ct' before the
\* last one.
NamesWithCt ==
    {dir[i].name : i \in {j \in 1..Len(dir) :
                            Len(dir[j].name) >= 2 /\ dir[j].name[Len(dir[j].name) - 1] = "ct"}}

\* The program ended in an error raised by Resolve.
ResolveRaised == pc = "error" /\ trace[Len(trace)] = <<loc, "Resolve">>

\* C26: whatever the names of the files listed, names with no underscore
\* included, Resolve does not end in an error, and it leaves in filelist the
\* names whose second last token is 'ct', each once, in ascending order.
C26_FilterCompletes ==
    Entered(loc, "Resolve") =>
        /\ ~ResolveRaised
        /\ {filelist[i] : i \in 1..Len(filelist)} = NamesWithCt
        /\ \A i, j \in 1..Len(filelist) : i < j => NameLess(filelist[i], filelist[j])

\* The same for the listings in which every name has an underscore.
C26_WhenAllHaveUnderscore ==
    (Entered(loc, "Resolve") /\ \A i \in 1..Len(dir) : Len(dir[i].name) >= 2) =>
        /\ ~ResolveRaised
        /\ {filelist[i] : i \in 1..Len(filelist)} = NamesWithCt
        /\ \A i, j \in 1..Len(filelist) : i < j => NameLess(filelist[i], filelist[j])

\* ---------------------------------------------------------------- C27
\* The command line selects no reducer.
NoReducer == QueueOf(args0, 1) = << >>

\* C27: when the frames of a location have been loaded and no reducer was
\* selected, the run does not end in an error, no output is attempted, and
\* once the program has ended a scratch directory freshly extracted for the
\* location has been removed.
C27_EmptyQueueCompletes ==
    (NoReducer /\ Entered(loc, "Load")) =>
        /\ pc # "error"
        /\ saves = << >>
        /\ (Ended /\ FreshlyExtracted) => ~locs[loc].scratch.exists

\* ---------------------------------------------------------------- C28
\* Runs started in a working directory, with -inp ./ or with no -inp at all.
\* The paths '.' and './' name the working directory, '/' the root directory.
Directory(p) == IF p \in {".", "./"} THEN "cwd" ELSE "root"

InitDefault ==
    \E n \in 0..MaxOptions, cwd \in {Location(FramesA), Location(FramesB), Location(<< >>)},
       root \in {Location(<< >>), Location(FramesB)} :
        \E v \in [1..n -> {Opt("-sum", << >>), Opt("-avg", << >>), Opt("-u", << >>)}],
           inp \in {<< >>, <<Opt("-inp", <<"./">>)>>} :
            InitArgv(inp \o v,
                     [p \in {".", "./", "/"} |-> IF Directory(p) = "cwd" THEN cwd ELSE root],
                     << >>)

SpecDefault == InitDefault /\ [][Next]_vars

\* The path of the k-th location of the run.
PathOf(k) == args0.inpaths[k]

\* Every stage entered so far was entered in the working directory, and
\* Resolve was entered at most once.
OnlyWorkingDirectoryOnce ==
    /\ \A j \in DOMAIN trace : Directory(PathOf(trace[j][1])) = "cwd"
    /\ Cardinality({j \in DOMAIN trace : trace[j][2] = "Resolve"}) <= 1

\* C28: a run started with no input location named processes the working
\* directory './' and nothing else, once.
C28_DefaultLocationOnce == ~HasFlag(argv, "-inp") => OnlyWorkingDirectoryOnce

\* The same for the runs started with -inp ./
C28_WhenInpGiven == HasFlag(argv, "-inp") => OnlyWorkingDirectoryOnce

\* ---------------------------------------------------------------- C29
\* Runs on a .zip archive whose scratch directory exists, with an operator
\* who types up to MaxLines lines of any kind.
MaxLines == 2

InitDialogue ==
    \E n \in 0..MaxLines, sc \in {Scratch(FramesA), Scratch(FramesB)} :
        \E w \in [1..n -> Lines] :
            InitArgv(<<Opt("-inp", <<"A">>), Opt("-type", <<".zip">>), Opt("-sum", << >>)>>,
                     [p \in {"A"} |-> [files |-> << >>,
                                       archives |-> <<Archive(".zip", FramesA)>>,
                                       scratch |-> sc, out |-> {}]],
                     w)

SpecDialogue == InitDialogue /\ [][Next]_vars

\* The lines that answer yes when the default is 'yes', and those that
\* answer no.
YesLines == {"", "y", "Y", "ye", "yes", "Yes", "YES"}

NoLines == {"n", "N", "no", "No", "NO"}

\* The position of the first line that is an answer, 0 when there is none.
FirstAnswer(inputs) ==
    IF \E i \in 1..Len(inputs) : inputs[i] \in YesLines \cup NoLines
    THEN CHOOSE i \in 1..Len(inputs) :
             /\ inputs[i] \in YesLines \cup NoLines
             /\ \A j \in 1..(i - 1) : inputs[j] \notin YesLines \cup NoLines
    ELSE 0

\* The defaults other than 'yes', 'no' and None that are tried.
BadDefaults == {"", "y", "Yes", "maybe", "true"}

\* C29: the question asked with default 'yes' is answered by the first line
\* typed that is empty or y, ye, yes, n, no in any case: yes for the empty line
\* and y, ye, yes, no for n and no; every line before it gets the question
\* printed again, and when no such line is typed the program stays in the
\* question.  A default other than 'yes', 'no' and None raises ValueError
\* before anything is printed or read.
C29_QueryYesNo ==
    [][(pc = "input" /\ AsksReuse) =>
          /\ IF FirstAnswer(stdin) = 0
             THEN /\ pc' = "waiting"
                  /\ stdin' = << >>
                  /\ prompts' = prompts + Len(stdin) + 1
                  /\ asked' = asked
             ELSE /\ pc' # "waiting"
                  /\ use_existing_temppath' = (stdin[FirstAnswer(stdin)] \in YesLines)
                  /\ asked' = Append(asked, [loc |-> loc,
                                             reuse |-> stdin[FirstAnswer(stdin)] \in YesLines])
                  /\ stdin' = SubSeq(stdin, FirstAnswer(stdin) + 1, Len(stdin))
                  /\ prompts' = prompts + FirstAnswer(stdin)
          /\ \A d \in BadDefaults :
                /\ query_yes_no(StrOf(d), stdin).outcome = "ValueError"
                /\ query_yes_no(StrOf(d), stdin).prompts = 0
                /\ query_yes_no(StrOf(d), stdin).used = 0]_vars

\* The operator typed a line that is no answer, was asked again and then
\* declined: two questions printed, the directory not reused.
C29_Witness ==
    /\ prompts = 2
    /\ Len(asked) = 1 /\ ~asked[1].reuse
    /\ stdin = << >>
    /\ pc = "done"

====
